---- MODULE Spec2Model ----
(***************************************************************************)
(* streamlit_activities_menu: the manifest loader (load_yaml), the catalog *)
(* builder (get_available_activities), the dynamic module loader           *)
(* (_script_as_module), the menu controller (build_activities_menu) and    *)
(* the example application's run().                                        *)
(*                                                                         *)
(* Paths are sequences of one-character strings, so that os.path.join,     *)
(* os.path.basename and str.replace are computed character by character.   *)
(* Activity names are opaque strings.  A value that is not a Python str is *)
(* the one-element sequence NotAStr.                                       *)
(***************************************************************************)
EXTENDS Integers, Sequences, FiniteSets, TLC

VARIABLES
    fs_files,      \* the paths that are existing regular files
    sys_modules,   \* sys.modules restricted to what the loader registers: identifier -> module object
    loads,         \* number of module objects created so far (module object identity)
    last_ok,       \* history: identifier -> module object of its latest successful load
    pc,            \* "idle" between calls, or the name of the call that has just returned
    yaml_ret,      \* outcome of the last load_yaml call
    yaml_seen,     \* history: <<branch, failing step, exception type>> of every failed load_yaml
    cat_ret,       \* outcome of the last get_available_activities call
    load_ret,      \* outcome of the last _script_as_module call
    menu_ret       \* outcome of the last build_activities_menu call

vars == <<fs_files, sys_modules, loads, last_ok, pc, yaml_ret, yaml_seen, cat_ret, load_ret, menu_ret>>

----------------------------------------------------------------------------
(* Bounds *)

\* longest manifest document (records) the catalog builder is given
MaxRecords == 3
\* longest catalog handed directly to the menu controller
MaxMenu == 2
\* module objects created in one behaviour
MaxLoads == 3
\* longest relative path enumerated for the identifier derivation
MaxPathLen == 7

----------------------------------------------------------------------------
(* Strings *)

NotAStr == <<"#notastr">>

\* isinstance(x, str)
IsStr(x) == x # NotAStr

\* s.startswith(pre)
startswith(s, pre) == Len(pre) <= Len(s) /\ SubSeq(s, 1, Len(pre)) = pre

\* s.endswith(suf)
endswith(s, suf) == Len(suf) <= Len(s) /\ SubSeq(s, Len(s) - Len(suf) + 1, Len(s)) = suf

\* does `old` occur in s at position i
OccursAt(s, i, old) == i + Len(old) - 1 <= Len(s) /\ SubSeq(s, i, i + Len(old) - 1) = old

RECURSIVE ReplaceFrom(_, _, _, _)
\* Python's str.replace scans left to right and replaces every non-overlapping occurrence
ReplaceFrom(s, i, old, new) ==
    IF i > Len(s) THEN <<>>
    ELSE IF OccursAt(s, i, old) THEN new \o ReplaceFrom(s, i + Len(old), old, new)
    ELSE <<s[i]>> \o ReplaceFrom(s, i + 1, old, new)

str_replace(s, old, new) == ReplaceFrom(s, 1, old, new)

\* index of the last "/" of p, 0 when there is none (p.rfind('/') + 1)
LastSlash(p) ==
    LET at == {i \in 1..Len(p) : p[i] = "/"}
    IN  IF at = {} THEN 0 ELSE CHOOSE i \in at : \A j \in at : j <= i

\* os.path.basename (posixpath): what follows the last "/"
basename(p) == SubSeq(p, LastSlash(p) + 1, Len(p))

\* os.path.join (posixpath) of two components
path_join(a, b) ==
    IF startswith(b, <<"/">>) THEN b
    ELSE IF a = <<>> \/ endswith(a, <<"/">>) THEN a \o b
    ELSE a \o <<"/">> \o b

----------------------------------------------------------------------------
(* The file system the activities live in *)

\* the activities root directory and a path that is no directory
RootDir == <<"/", "r">>
NoDir == <<"/", "x">>

A_py == <<"a", ".", "p", "y">>
B_py == <<"b", ".", "p", "y">>
D_A_py == <<"d", "/", "a", ".", "p", "y">>
N_txt == <<"n", ".", "t", "x", "t">>
Gone_py == <<"g", ".", "p", "y">>

\* os.path.isdir
isdir(p) == p \in {RootDir, <<"/", "r", "/", "d">>}

\* os.path.isfile
isfile(p) == p \in fs_files

\* the regular files under RootDir: a.py, b.py, d/a.py (same base name as a.py), n.txt
ActivityFiles == {path_join(RootDir, u) : u \in {A_py, B_py, D_A_py, N_txt}}

----------------------------------------------------------------------------
(* Dynamic module loader: _script_as_module *)

\* what executing a script's top-level code can do: finish, raise an exception
\* derived from Exception, or raise one derived from BaseException only
\* (SystemExit, KeyboardInterrupt, the host framework's script-control exceptions)
ExecOutcomes == {"ok", "Exception", "BaseException"}

\* the file suffixes importlib has a loader for (extension, source, bytecode)
LoaderSuffixes == {<<".", "s", "o">>, <<".", "p", "y">>, <<".", "p", "y", "c">>}

\* spec_from_file_location(...) is not None: a loader exists for the location's suffix
has_spec(location) == \E suf \in LoaderSuffixes : endswith(location, suf)

\* module_name = os.path.basename(abs_module_filepath).replace('.py', '')
module_name_of(abs_module_filepath) ==
    str_replace(basename(abs_module_filepath), <<".", "p", "y">>, <<>>)

\* mods with mods[k] = v
Put(mods, k, v) == [x \in (DOMAIN mods) \cup {k} |-> IF x = k THEN v ELSE mods[x]]

Ev(e, a) == [ev |-> e, arg |-> a]

\* no except clause around the execution
handled_nothing(outcome) == FALSE

\* the `except Exception` clause: which outcomes of the try block it handles
handled(outcome) == outcome = "Exception"

\* the module is registered before its code is executed
try_register_first(mods, module_name, module, outcome) == Put(mods, module_name, module)

\* the try block: the module object is created and executed, and registered
\* under module_name only after exec_module has returned
try_register(mods, module_name, module, outcome) ==
    IF outcome = "ok" THEN Put(mods, module_name, module) ELSE mods

LoadResult(raised, value, events, mods, made) ==
    [raised |-> raised, value |-> value, events |-> events, mods |-> mods, made |-> made]

\* _script_as_module(module_filepath, activities_dirpath) called with registry
\* mods, when `made` module objects exist and the script's top-level code ends in `outcome`
script_as_module(module_filepath, activities_dirpath, outcome, mods, made) ==
    IF ~IsStr(activities_dirpath) THEN LoadResult("TypeError", FALSE, <<>>, mods, made)
    ELSE IF ~IsStr(module_filepath) THEN LoadResult("TypeError", FALSE, <<>>, mods, made)
    ELSE IF ~isdir(activities_dirpath)
    THEN LoadResult("NotADirectoryError", FALSE, <<Ev("isdir", activities_dirpath)>>, mods, made)
    ELSE
      LET abs_module_filepath == path_join(activities_dirpath, module_filepath)
          checks == <<Ev("isdir", activities_dirpath), Ev("isfile", abs_module_filepath)>>
      IN  IF ~isfile(abs_module_filepath)
          THEN LoadResult("FileNotFoundError", FALSE, checks, mods, made)
          ELSE
            LET module_name == module_name_of(abs_module_filepath)
                module == made + 1
                ran == checks \o <<Ev("exec", abs_module_filepath)>>
            IN  IF has_spec(abs_module_filepath)
                THEN IF outcome = "ok"
                     THEN LoadResult("none", TRUE, ran \o <<Ev("register", module_name)>>,
                                     try_register(mods, module_name, module, outcome), module)
                     ELSE IF handled(outcome)
                     THEN LoadResult("none", FALSE, ran \o <<Ev("print", module_name)>>,
                                     try_register(mods, module_name, module, outcome), module)
                     ELSE LoadResult(outcome, FALSE, ran,
                                     try_register(mods, module_name, module, outcome), module)
                ELSE LoadResult("none", FALSE, checks, mods, made)

----------------------------------------------------------------------------
(* Manifest documents *)

Names == {"A", "B"}
Urls == {A_py, Gone_py, NotAStr}

\* a manifest record: a mapping that may carry `name` and may carry `url`
Records ==
    {[name |-> n, url |-> u] : n \in Names, u \in Urls}
        \cup {[name |-> n] : n \in Names}
        \cup {[url |-> u] : u \in Urls}
        \cup {[other |-> "x"]}

SeqsUpTo(S, n) == UNION {[1..k -> S] : k \in 0..n}

\* a parsed YAML document: null (an empty file), or a sequence of records
NullDoc == [null |-> TRUE, recs |-> <<>>]
Docs(n) == {NullDoc} \cup {[null |-> FALSE, recs |-> r] : r \in SeqsUpTo(Records, n)}

\* what a manifest location holds: status "ok" (a readable file, a 2xx response),
\* "missing" (no such regular file), "neterror" (requests.get raises),
\* "httperror" (raise_for_status raises); valid: the text parses as YAML
World(status, valid, doc) == [status |-> status, valid |-> valid, doc |-> doc]
Worlds(n) ==
    {World(st, FALSE, NullDoc) : st \in {"ok", "missing", "neterror", "httperror"}}
        \cup {World("ok", TRUE, d) : d \in Docs(n)}

Loc_http == <<"h", "t", "t", "p", ":", "/", "/", "m">>
Loc_https == <<"h", "t", "t", "p", "s", ":", "/", "/", "m">>
Loc_file == <<"/", "m">>
Locations == {Loc_http, Loc_https, Loc_file}

\* filepath.startswith('http://') or filepath.startswith('https://')
is_url(filepath) ==
    \/ startswith(filepath, <<"h", "t", "t", "p", ":", "/", "/">>)
    \/ startswith(filepath, <<"h", "t", "t", "p", "s", ":", "/", "/">>)

\* the worlds a location can be in: only a URL is fetched, only a path is a file
WorldFits(filepath, w) ==
    IF is_url(filepath) THEN w.status # "missing"
    ELSE w.status \in {"ok", "missing"}

\* os.path.isfile on a manifest location: a URL names no local file
manifest_isfile(filepath, w) == ~is_url(filepath) /\ w.status = "ok"

\* os.path.abspath: an absolute path is kept, a relative one is joined to the
\* working directory with its repeated slashes collapsed
Cwd == <<"/", "w">>
abspath(p) ==
    IF startswith(p, <<"/">>) THEN p
    ELSE path_join(Cwd, str_replace(p, <<"/", "/">>, <<"/">>))

----------------------------------------------------------------------------
(* Manifest loader: load_yaml *)

YamlResult(raised, wraps, step, value) ==
    [raised |-> raised, wraps |-> wraps, step |-> step, value |-> value]

\* the exception the URL branch raises for a caught RequestException or YAMLError
url_branch_error(caught) == "Exception"

\* load_yaml(filepath) in world w.  step names the operation that failed;
\* wraps is the message of the underlying exception the raised one carries
load_yaml(filepath, w) ==
    IF is_url(filepath)
    THEN IF w.status # "ok"
         THEN YamlResult(url_branch_error("RequestException"), "request message", "retrieve", NullDoc)
         ELSE IF ~w.valid
         THEN YamlResult(url_branch_error("YAMLError"), "parser message", "parse", NullDoc)
         ELSE YamlResult("none", "", "none", w.doc)
    ELSE IF w.status # "ok"
         THEN YamlResult("FileNotFoundError", "", "isfile", NullDoc)
         ELSE IF ~w.valid
         THEN YamlResult("YAMLError", "parser message", "parse", NullDoc)
         ELSE YamlResult("none", "", "none", w.doc)

----------------------------------------------------------------------------
(* Activity catalog builder: get_available_activities *)

\* an OrderedDict is the sequence of its items in iteration order
Item(k, v) == [key |-> k, val |-> v]
Keys(od) == {od[i].key : i \in DOMAIN od}

\* the first value stored under a key is kept
dict_set_first_wins(od, k, v) ==
    IF k \in Keys(od) THEN od ELSE Append(od, Item(k, v))

\* d[k] = v on a dict: an existing key keeps its position and takes the new
\* value, a new key goes last
dict_set(od, k, v) ==
    IF k \in Keys(od)
    THEN [i \in DOMAIN od |-> IF od[i].key = k THEN Item(k, v) ELSE od[i]]
    ELSE Append(od, Item(k, v))

RECURSIVE comprehension_needs_url(_, _, _)
\* the comprehension reading service['url'] as well
comprehension_needs_url(recs, i, od) ==
    IF i > Len(recs) THEN [raised |-> "none", items |-> od]
    ELSE IF "name" \notin DOMAIN recs[i] \/ "url" \notin DOMAIN recs[i]
    THEN [raised |-> "KeyError", items |-> <<>>]
    ELSE comprehension_needs_url(recs, i + 1, dict_set(od, recs[i].name, recs[i]))

RECURSIVE comprehension(_, _, _)
\* {service['name']: service for service in available_services}, from record i
\* on with od built so far; a record without `name` raises KeyError
comprehension(recs, i, od) ==
    IF i > Len(recs) THEN [raised |-> "none", items |-> od]
    ELSE IF "name" \notin DOMAIN recs[i] THEN [raised |-> "KeyError", items |-> <<>>]
    ELSE comprehension(recs, i + 1, dict_set(od, recs[i].name, recs[i]))

\* `if available_services is not None:` in place of the truth test
falsy_none_only(doc) == doc.null

\* `if available_services:` is false: None and the empty sequence are falsy
falsy(doc) == doc.null \/ doc.recs = <<>>

\* a catalog value: None, or an OrderedDict
NoneCat == [none |-> TRUE, items |-> <<>>]
Cat(items) == [none |-> FALSE, items |-> items]

CatResult(raised, value, doc) == [raised |-> raised, value |-> value, doc |-> doc]

\* get_available_activities(activities_filepath) in world w
get_available_activities(activities_filepath, w) ==
    IF ~manifest_isfile(activities_filepath, w)
    THEN CatResult("FileNotFoundError", NoneCat, NullDoc)
    ELSE LET y == load_yaml(abspath(activities_filepath), w)
         IN  IF y.raised # "none" THEN CatResult(y.raised, NoneCat, NullDoc)
             ELSE IF falsy(y.value) THEN CatResult("none", NoneCat, y.value)
             ELSE LET c == comprehension(y.value.recs, 1, <<>>)
                  IN  IF c.raised # "none" THEN CatResult(c.raised, NoneCat, y.value)
                      ELSE CatResult("none", Cat(c.items), y.value)

----------------------------------------------------------------------------
(* Menu controller: build_activities_menu *)

\* the validation loop without the `url` test
validate_name_only(items) == \A i \in DOMAIN items : "name" \in DOMAIN items[i].val

\* the validation loop: every record has both `name` and `url`
validate(items) ==
    \A i \in DOMAIN items : "name" \in DOMAIN items[i].val /\ "url" \in DOMAIN items[i].val

\* activity_names: the (name, url) pairs offered to the select box, in catalog order
activity_names(items) == [i \in DOMAIN items |-> <<items[i].val.name, items[i].val.url>>]

\* sidebar.selectbox(...): choice 0 is None, choice i the i-th option
NoSelection == [none |-> TRUE, name |-> "", url |-> <<>>]
selectbox(options, choice) ==
    IF choice = 0 THEN NoSelection
    ELSE [none |-> FALSE, name |-> options[choice][1], url |-> options[choice][2]]

\* the first option's path is loaded, whatever was selected
load_target_first(selection_tuple, options) == options[1][2]

\* the module_filepath handed to the loader: the selected pair's second component
load_target(selection_tuple, options) == selection_tuple.url

\* a load that returned False is turned into an exception of the menu call
menu_raises_on_false(load) ==
    IF load.raised # "none" THEN load.raised
    ELSE IF ~load.value THEN "RuntimeError" ELSE "none"

\* what the call raises once the loader has returned or raised: nothing is
\* caught around the loader call, and its return value is not looked at
menu_raises(load) == load.raised

\* selected_activity if selection_tuple else None
returned_name(selection_tuple) ==
    IF selection_tuple.none THEN [none |-> TRUE, name |-> ""]
    ELSE [none |-> FALSE, name |-> selection_tuple.name]

\* target is the module_filepath the loader was called with, when it was called
MenuResult(raised, rendered, sel, loaded, target, load, ret_name, ret_cat) ==
    [raised |-> raised, rendered |-> rendered, sel |-> sel, loaded |-> loaded,
     target |-> target, load |-> load, ret_name |-> ret_name, ret_cat |-> ret_cat]

NoName == [none |-> TRUE, name |-> ""]
NoLoad(mods, made) == LoadResult("none", FALSE, <<>>, mods, made)

\* build_activities_menu(activities_dict, label, key, activities_dirpath, disabled)
\* when the select box answers `choice` and the selected script ends in `outcome`
build_activities_menu(activities_dict, activities_dirpath, choice, outcome, mods, made) ==
    IF activities_dict.none
    THEN MenuResult("AttributeError", FALSE, NoSelection, FALSE, <<>>, NoLoad(mods, made), NoName, NoneCat)
    ELSE IF ~validate(activities_dict.items)
    THEN MenuResult("ValueError", FALSE, NoSelection, FALSE, <<>>, NoLoad(mods, made), NoName, NoneCat)
    ELSE
      LET options == activity_names(activities_dict.items)
          selection_tuple == selectbox(options, choice)
      IN  IF selection_tuple.none
          THEN MenuResult("none", TRUE, selection_tuple, FALSE, <<>>, NoLoad(mods, made),
                          returned_name(selection_tuple), activities_dict)
          ELSE
            LET module_filepath == load_target(selection_tuple, options)
                load == script_as_module(module_filepath, activities_dirpath, outcome, mods, made)
            IN  IF menu_raises(load) # "none"
                THEN MenuResult(menu_raises(load), TRUE, selection_tuple, TRUE, module_filepath,
                                load, NoName, NoneCat)
                ELSE MenuResult("none", TRUE, selection_tuple, TRUE, module_filepath, load,
                                returned_name(selection_tuple), activities_dict)

\* the catalogs a caller can hand to the menu controller directly
MenuKeys == {"A", "B"}
MenuCatalogs ==
    {Cat(c) : c \in {d \in SeqsUpTo({Item(k, r) : k \in MenuKeys, r \in Records}, MaxMenu) :
                        \A i, j \in DOMAIN d : i # j => d[i].key # d[j].key}}

----------------------------------------------------------------------------
(* State *)

IdleYaml == [called |-> FALSE, filepath |-> <<>>, world |-> World("missing", FALSE, NullDoc),
             ret |-> YamlResult("none", "", "none", NullDoc)]
IdleCat == [called |-> FALSE, filepath |-> <<>>, world |-> World("missing", FALSE, NullDoc),
            ret |-> CatResult("none", NoneCat, NullDoc)]
IdleLoad == [called |-> FALSE, module_filepath |-> <<>>, activities_dirpath |-> <<>>,
             outcome |-> "ok", before |-> <<>>, ret |-> NoLoad(<<>>, 0)]
IdleMenu == [called |-> FALSE, activities_dict |-> NoneCat, activities_dirpath |-> <<>>,
             choice |-> 0, outcome |-> "ok", before |-> <<>>,
             ret |-> MenuResult("none", FALSE, NoSelection, FALSE, <<>>, NoLoad(<<>>, 0), NoName, NoneCat)]

Init ==
    /\ fs_files = ActivityFiles
    /\ sys_modules = <<>>
    /\ loads = 0
    /\ last_ok = <<>>
    /\ pc = "idle"
    /\ yaml_ret = IdleYaml
    /\ yaml_seen = {}
    /\ cat_ret = IdleCat
    /\ load_ret = IdleLoad
    /\ menu_ret = IdleMenu

\* the history of successful loads after a loader call
ok_after(load, module_filepath, activities_dirpath) ==
    IF load.raised = "none" /\ load.value
    THEN Put(last_ok, module_name_of(path_join(activities_dirpath, module_filepath)), load.made)
    ELSE last_ok

\* a direct call of load_yaml
CallLoadYaml(filepath, w) ==
    /\ pc = "idle"
    /\ WorldFits(filepath, w)
    /\ LET r == load_yaml(filepath, w)
       IN  /\ yaml_ret' = [called |-> TRUE, filepath |-> filepath, world |-> w, ret |-> r]
           /\ yaml_seen' = IF r.raised = "none" THEN yaml_seen
                           ELSE yaml_seen \cup {<<is_url(filepath), r.step, r.raised>>}
    /\ pc' = "load_yaml"
    /\ UNCHANGED <<fs_files, sys_modules, loads, last_ok, cat_ret, load_ret, menu_ret>>

\* a direct call of get_available_activities
CallGetAvailableActivities(filepath, w) ==
    /\ pc = "idle"
    /\ WorldFits(filepath, w)
    /\ cat_ret' = [called |-> TRUE, filepath |-> filepath, world |-> w,
                   ret |-> get_available_activities(filepath, w)]
    /\ pc' = "get_available_activities"
    /\ UNCHANGED <<fs_files, sys_modules, loads, last_ok, yaml_ret, yaml_seen, load_ret, menu_ret>>

\* a direct call of _script_as_module
CallScriptAsModule(module_filepath, activities_dirpath, outcome) ==
    /\ pc = "idle"
    /\ loads < MaxLoads
    /\ LET r == script_as_module(module_filepath, activities_dirpath, outcome, sys_modules, loads)
       IN  /\ load_ret' = [called |-> TRUE, module_filepath |-> module_filepath,
                           activities_dirpath |-> activities_dirpath, outcome |-> outcome,
                           before |-> sys_modules, ret |-> r]
           /\ sys_modules' = r.mods
           /\ loads' = r.made
           /\ last_ok' = ok_after(r, module_filepath, activities_dirpath)
    /\ pc' = "script_as_module"
    /\ UNCHANGED <<fs_files, yaml_ret, yaml_seen, cat_ret, menu_ret>>

\* the menu call proper, shared by the direct call and the example application
MenuCall(activities_dict, activities_dirpath, choice, outcome) ==
    /\ loads < MaxLoads
    /\ choice \in 0..(IF activities_dict.none THEN 0 ELSE Len(activities_dict.items))
    /\ LET r == build_activities_menu(activities_dict, activities_dirpath, choice, outcome,
                                      sys_modules, loads)
       IN  /\ menu_ret' = [called |-> TRUE, activities_dict |-> activities_dict,
                           activities_dirpath |-> activities_dirpath, choice |-> choice,
                           outcome |-> outcome, before |-> sys_modules, ret |-> r]
           /\ sys_modules' = r.load.mods
           /\ loads' = r.load.made
           /\ last_ok' = IF r.loaded THEN ok_after(r.load, r.target, activities_dirpath)
                         ELSE last_ok

\* a direct call of build_activities_menu
CallBuildActivitiesMenu(activities_dict, activities_dirpath, choice, outcome) ==
    /\ pc = "idle"
    /\ MenuCall(activities_dict, activities_dirpath, choice, outcome)
    /\ pc' = "build_activities_menu"
    /\ UNCHANGED <<fs_files, yaml_ret, yaml_seen, cat_ret, load_ret>>

\* the example application's run(): the catalog is built from the manifest and
\* handed to the menu; an exception of the builder ends the run before the menu
Run(w, choice, outcome) ==
    /\ pc = "idle"
    /\ WorldFits(Loc_file, w)
    /\ LET c == get_available_activities(Loc_file, w)
       IN  /\ cat_ret' = [called |-> TRUE, filepath |-> Loc_file, world |-> w, ret |-> c]
           /\ IF c.raised # "none"
              THEN /\ choice = 0 /\ outcome = "ok"
                   /\ UNCHANGED <<sys_modules, loads, last_ok, menu_ret>>
              ELSE MenuCall(c.value, RootDir, choice, outcome)
    /\ pc' = "run"
    /\ UNCHANGED <<fs_files, yaml_ret, yaml_seen, load_ret>>

\* the host framework re-executes the script on the next interaction: the
\* results of the previous execution are gone, sys.modules stays
Rerun ==
    /\ pc # "idle"
    /\ pc' = "idle"
    /\ yaml_ret' = IdleYaml
    /\ cat_ret' = IdleCat
    /\ load_ret' = IdleLoad
    /\ menu_ret' = IdleMenu
    /\ UNCHANGED <<fs_files, sys_modules, loads, last_ok, yaml_seen>>

LoaderPaths == {A_py, B_py, D_A_py, N_txt, Gone_py, NotAStr}
LoaderRoots == {RootDir, NoDir, NotAStr}

\* the inputs of the calls, within the bounds
BuilderWorlds == Worlds(MaxRecords)
AppWorlds == Worlds(MaxMenu)

\* the application: the loader and the menu called directly, and run()
Next ==
    \/ /\ pc = "idle"
       /\ \E m \in LoaderPaths, d \in LoaderRoots, o \in ExecOutcomes : CallScriptAsModule(m, d, o)
    \/ /\ pc = "idle"
       /\ \E c \in MenuCatalogs, d \in {RootDir, NoDir}, i \in 0..MaxMenu, o \in ExecOutcomes :
             CallBuildActivitiesMenu(c, d, i, o)
    \/ /\ pc = "idle"
       /\ \E w \in AppWorlds, i \in 0..MaxMenu, o \in ExecOutcomes : Run(w, i, o)
    \/ Rerun

Spec == Init /\ [][Next]_vars

\* the catalog builder on its own
NextCatalog ==
    \/ /\ pc = "idle"
       /\ \E f \in Locations, w \in BuilderWorlds : CallGetAvailableActivities(f, w)
    \/ Rerun

SpecCatalog == Init /\ [][NextCatalog]_vars

\* the manifest loader on its own
NextYaml ==
    \/ /\ pc = "idle"
       /\ \E f \in Locations, w \in AppWorlds : CallLoadYaml(f, w)
    \/ Rerun

SpecYaml == Init /\ [][NextYaml]_vars

\* the loader on every short path: the file system holds one script, at any
\* relative path below the root
PathAlphabet == {"a", ".", "p", "y", "/"}
PathInputs ==
    {p \in UNION {[1..k -> PathAlphabet] : k \in 1..MaxPathLen} :
        p[1] # "/" /\ p[Len(p)] # "/"}

InitName ==
    /\ fs_files \in {{path_join(RootDir, p)} : p \in PathInputs}
    /\ sys_modules = <<>>
    /\ loads = 0
    /\ last_ok = <<>>
    /\ pc = "idle"
    /\ yaml_ret = IdleYaml
    /\ yaml_seen = {}
    /\ cat_ret = IdleCat
    /\ load_ret = IdleLoad
    /\ menu_ret = IdleMenu

\* the relative path of a file below the root
RelPath(root, f) == SubSeq(f, Len(root) + 2, Len(f))

NextName ==
    /\ pc = "idle"
    /\ \E f \in fs_files, o \in ExecOutcomes : CallScriptAsModule(RelPath(RootDir, f), RootDir, o)

SpecName == InitName /\ [][NextName]_vars

----------------------------------------------------------------------------
(* Properties of the loader and the menu controller *)

\* the loader calls of the last execution: a direct one, or the one the menu made
LoaderCalls ==
    (IF load_ret.called
     THEN {[module_filepath |-> load_ret.module_filepath,
            activities_dirpath |-> load_ret.activities_dirpath,
            outcome |-> load_ret.outcome, before |-> load_ret.before, ret |-> load_ret.ret]}
     ELSE {})
    \cup
    (IF menu_ret.called /\ menu_ret.ret.loaded
     THEN {[module_filepath |-> menu_ret.ret.target,
            activities_dirpath |-> menu_ret.activities_dirpath,
            outcome |-> menu_ret.outcome, before |-> menu_ret.before, ret |-> menu_ret.ret.load]}
     ELSE {})

\* the loader's preconditions: textual paths, an existing root, an existing file
PreconditionsHold(c) ==
    /\ IsStr(c.activities_dirpath) /\ IsStr(c.module_filepath)
    /\ isdir(c.activities_dirpath)
    /\ isfile(path_join(c.activities_dirpath, c.module_filepath))

\* the script's top-level code was executed: the preconditions hold and a
\* loadable unit exists for the file
Executed(c) ==
    PreconditionsHold(c) /\ has_spec(path_join(c.activities_dirpath, c.module_filepath))

\* C1 as stated: whenever the preconditions hold and the script's top-level
\* code raises any exception, the loader returns False and raises nothing.
C1_EveryExceptionCaught ==
    \A c \in LoaderCalls :
        Executed(c) /\ c.outcome # "ok" => c.ret.raised = "none" /\ c.ret.value = FALSE

\* C1 amended: an exception derived from Exception raised by the script's
\* top-level code is caught and the loader returns False; an exception derived
\* from BaseException only escapes to the caller.
C1_ExceptionCaught ==
    \A c \in LoaderCalls :
        /\ Executed(c) /\ c.outcome = "Exception" => c.ret.raised = "none" /\ c.ret.value = FALSE
        /\ Executed(c) /\ c.outcome = "BaseException" => c.ret.raised = "BaseException"

C1_Witness ==
    \E c \in LoaderCalls :
        Executed(c) /\ c.outcome = "Exception" /\ c.ret.raised = "none" /\ c.ret.value = FALSE

\* the menu call went past validation and the select box answered a selection
Selected ==
    /\ menu_ret.called
    /\ ~menu_ret.activities_dict.none
    /\ \A i \in DOMAIN menu_ret.activities_dict.items :
          {"name", "url"} \subseteq DOMAIN menu_ret.activities_dict.items[i].val
    /\ menu_ret.choice # 0

SelectedRecord == menu_ret.activities_dict.items[menu_ret.choice].val

\* C2 as stated: with a valid catalog and a selection, the loader is called for
\* the selected record's path and the call returns (selected name, the same
\* catalog) without raising, whatever became of the load.
C2_LoadFailureNeverRaises ==
    Selected =>
        /\ menu_ret.ret.loaded
        /\ menu_ret.ret.target = SelectedRecord.url
        /\ menu_ret.ret.raised = "none"
        /\ menu_ret.ret.ret_name = [none |-> FALSE, name |-> SelectedRecord.name]
        /\ menu_ret.ret.ret_cat = menu_ret.activities_dict

\* the loader raises instead of returning: a precondition fails, or the executed
\* script raises outside the Exception hierarchy
LoaderRaises(module_filepath, activities_dirpath, outcome) ==
    \/ ~IsStr(activities_dirpath) \/ ~IsStr(module_filepath)
    \/ ~isdir(activities_dirpath)
    \/ ~isfile(path_join(activities_dirpath, module_filepath))
    \/ has_spec(path_join(activities_dirpath, module_filepath)) /\ outcome = "BaseException"

\* C2 amended: with a valid catalog and a selection, the loader is called for
\* the selected record's path; when the loader returns, True or False, the call
\* returns (selected name, the same catalog); when the loader raises (a failed
\* precondition, or a script exception outside the Exception hierarchy), that
\* exception leaves the menu call.
C2_ReturnedLoadNeverRaises ==
    Selected =>
        /\ menu_ret.ret.loaded
        /\ menu_ret.ret.target = SelectedRecord.url
        /\ menu_ret.ret.raised = menu_ret.ret.load.raised
        /\ (menu_ret.ret.raised # "none") <=>
               LoaderRaises(SelectedRecord.url, menu_ret.activities_dirpath, menu_ret.outcome)
        /\ menu_ret.ret.raised = "none" =>
               /\ menu_ret.ret.ret_name = [none |-> FALSE, name |-> SelectedRecord.name]
               /\ menu_ret.ret.ret_cat = menu_ret.activities_dict

C2_Witness ==
    /\ Selected
    /\ menu_ret.ret.loaded /\ menu_ret.ret.load.raised = "none" /\ ~menu_ret.ret.load.value
    /\ menu_ret.outcome = "Exception"
    /\ menu_ret.ret.raised = "none"
    /\ menu_ret.ret.ret_name = [none |-> FALSE, name |-> SelectedRecord.name]

\* the identifiers whose registry entry differs between two registries
Changed(before, after) ==
    {k \in (DOMAIN before) \cup (DOMAIN after) :
        k \notin DOMAIN before \/ k \notin DOMAIN after \/ before[k] # after[k]}

\* C3: a menu call attempts a load only for the selected entry and only once the
\* select box has answered: every file check and execution is of the selected
\* entry's path, only its identifier's registry entry changes, and without a
\* selection nothing is loaded and (None, catalog) is returned.
C3_OnlySelectedLoaded ==
    menu_ret.called =>
        /\ menu_ret.ret.loaded =>
              /\ menu_ret.ret.rendered /\ menu_ret.choice # 0
              /\ menu_ret.ret.target = SelectedRecord.url
              /\ IsStr(SelectedRecord.url) =>
                    LET file == path_join(menu_ret.activities_dirpath, SelectedRecord.url)
                    IN  /\ \A i \in DOMAIN menu_ret.ret.load.events :
                              LET e == menu_ret.ret.load.events[i]
                              IN  /\ e.ev \in {"isfile", "exec"} => e.arg = file
                                  /\ e.ev = "register" => e.arg = module_name_of(file)
                        /\ Changed(menu_ret.before, sys_modules) \subseteq {module_name_of(file)}
              /\ ~IsStr(SelectedRecord.url) =>
                    menu_ret.ret.load.events = <<>> /\ sys_modules = menu_ret.before
        /\ ~menu_ret.ret.loaded =>
              /\ menu_ret.ret.load.events = <<>>
              /\ sys_modules = menu_ret.before
        /\ menu_ret.ret.rendered /\ menu_ret.choice = 0 =>
              /\ ~menu_ret.ret.loaded
              /\ menu_ret.ret.raised = "none"
              /\ menu_ret.ret.ret_name.none
              /\ menu_ret.ret.ret_cat = menu_ret.activities_dict

C3_Witness ==
    /\ Selected
    /\ Len(menu_ret.activities_dict.items) = 2 /\ menu_ret.choice = 2
    /\ menu_ret.activities_dict.items[1].val.url # SelectedRecord.url
    /\ menu_ret.ret.loaded /\ menu_ret.ret.load.value
    /\ Changed(menu_ret.before, sys_modules) # {}

\* some record of the catalog handed to the menu lacks `name` or lacks `url`
SomeRecordIncomplete ==
    /\ menu_ret.called
    /\ ~menu_ret.activities_dict.none
    /\ \E i \in DOMAIN menu_ret.activities_dict.items :
          \/ "name" \notin DOMAIN menu_ret.activities_dict.items[i].val
          \/ "url" \notin DOMAIN menu_ret.activities_dict.items[i].val

\* C4: a catalog with a record lacking `name` or `url` makes the menu call raise
\* ValueError before the select box is rendered and before any load: nothing is
\* checked on the file system, no module object is made, the registry is as before.
C4_IncompleteRecordRejected ==
    SomeRecordIncomplete =>
        /\ menu_ret.ret.raised = "ValueError"
        /\ ~menu_ret.ret.rendered
        /\ ~menu_ret.ret.loaded
        /\ menu_ret.ret.load.events = <<>>
        /\ sys_modules = menu_ret.before
        /\ menu_ret.ret.load.made = loads

C4_Witness ==
    /\ SomeRecordIncomplete
    /\ Len(menu_ret.activities_dict.items) = 2
    /\ {"name", "url"} \subseteq DOMAIN menu_ret.activities_dict.items[1].val
    /\ "url" \notin DOMAIN menu_ret.activities_dict.items[2].val
    /\ menu_ret.ret.raised = "ValueError"
    /\ DOMAIN sys_modules # {}

\* a load attempt failed: it raised, or it returned False
Failed(c) == c.ret.raised # "none" \/ ~c.ret.value

\* C7: the registry holds, for each identifier, the module of its latest
\* successful load: a successful load sets its identifier's entry to the new
\* module and nothing else, no entry is ever removed, and a failed attempt
\* (an exception of the script, no loadable unit, a failed precondition) leaves
\* the registry as it was.
C7_RegistryIsLatestSuccess ==
    /\ sys_modules = last_ok
    /\ \A c \in LoaderCalls :
          /\ sys_modules = c.ret.mods
          /\ DOMAIN c.before \subseteq DOMAIN sys_modules
          /\ Failed(c) => sys_modules = c.before
          /\ ~Failed(c) =>
                LET id == module_name_of(path_join(c.activities_dirpath, c.module_filepath))
                IN  /\ Changed(c.before, sys_modules) = {id}
                    /\ sys_modules[id] = loads
                    /\ \A k \in DOMAIN c.before : c.before[k] < loads

C7_Witness ==
    \E c \in LoaderCalls :
        LET id == module_name_of(path_join(c.activities_dirpath, c.module_filepath))
        IN  /\ Executed(c) /\ c.outcome = "Exception" /\ Failed(c)
            /\ id \in DOMAIN c.before
            /\ c.before[id] = 2
            /\ sys_modules[id] = 2

----------------------------------------------------------------------------
(* Properties of the catalog builder *)

\* the builder was given an existing manifest file that parsed into a document
Parsed == cat_ret.called /\ ~is_url(cat_ret.filepath) /\ cat_ret.world.status = "ok"
              /\ cat_ret.world.valid

ManifestRecs == cat_ret.world.doc.recs
NonEmptyDoc == ~cat_ret.world.doc.null /\ Len(ManifestRecs) > 0
AllNamed == \A i \in DOMAIN ManifestRecs : "name" \in DOMAIN ManifestRecs[i]

\* the last record of the manifest named n
LastNamed(n) ==
    ManifestRecs[CHOOSE i \in DOMAIN ManifestRecs :
                    /\ ManifestRecs[i].name = n
                    /\ \A j \in DOMAIN ManifestRecs : ManifestRecs[j].name = n => j <= i]

\* the position of the first record of the manifest named n
FirstIndex(n) ==
    CHOOSE i \in DOMAIN ManifestRecs :
        /\ ManifestRecs[i].name = n
        /\ \A j \in DOMAIN ManifestRecs : ManifestRecs[j].name = n => i <= j

\* C5: for a non-empty manifest whose records all carry `name`, the catalog is
\* what inserting the records in manifest order with last write winning gives:
\* its keys are exactly the manifest's names, each once, in the order of their
\* first occurrence; each key maps to the last record of that name; with N
\* records of unique names it has N entries in manifest order.
C5_CatalogIsOrderedLastWins ==
    Parsed /\ NonEmptyDoc /\ AllNamed =>
        LET items == cat_ret.ret.value.items
        IN  /\ cat_ret.ret.raised = "none" /\ ~cat_ret.ret.value.none
            /\ {items[i].key : i \in DOMAIN items} = {ManifestRecs[i].name : i \in DOMAIN ManifestRecs}
            /\ \A i, j \in DOMAIN items :
                  i < j => FirstIndex(items[i].key) < FirstIndex(items[j].key)
            /\ \A i \in DOMAIN items : items[i].val = LastNamed(items[i].key)
            /\ (\A i, j \in DOMAIN ManifestRecs : i # j => ManifestRecs[i].name # ManifestRecs[j].name)
                  => /\ Len(items) = Len(ManifestRecs)
                     /\ \A i \in DOMAIN items :
                           items[i].key = ManifestRecs[i].name /\ items[i].val = ManifestRecs[i]

C5_Witness ==
    /\ Parsed /\ NonEmptyDoc /\ AllNamed
    /\ Len(ManifestRecs) = 3
    /\ ManifestRecs[1].name = ManifestRecs[3].name
    /\ ManifestRecs[1].name # ManifestRecs[2].name
    /\ ManifestRecs[1] # ManifestRecs[3]
    /\ Len(cat_ret.ret.value.items) = 2
    /\ cat_ret.ret.value.items[1].val = ManifestRecs[3]

\* C8 as stated: an empty or null document gives None, never an empty mapping;
\* every non-empty document gives a mapping, never None.
C8_NoneIffEmpty ==
    Parsed =>
        /\ ~NonEmptyDoc => cat_ret.ret.raised = "none" /\ cat_ret.ret.value.none
        /\ NonEmptyDoc => cat_ret.ret.raised = "none" /\ ~cat_ret.ret.value.none

\* C8 amended: an empty or null document gives None, never an empty mapping;
\* every non-empty document whose records all carry `name` gives a mapping,
\* never None (a record without `name` makes the builder raise KeyError).
C8_NoneIffEmptyWhenNamed ==
    Parsed =>
        /\ ~NonEmptyDoc => cat_ret.ret.raised = "none" /\ cat_ret.ret.value.none
        /\ NonEmptyDoc /\ AllNamed =>
              /\ cat_ret.ret.raised = "none" /\ ~cat_ret.ret.value.none
              /\ cat_ret.ret.value.items # <<>>
        /\ NonEmptyDoc /\ ~AllNamed => cat_ret.ret.raised = "KeyError"

C8_Witness ==
    /\ Parsed
    /\ ~cat_ret.world.doc.null /\ ManifestRecs = <<>>
    /\ cat_ret.ret.raised = "none" /\ cat_ret.ret.value.none

\* C10 as stated: a non-empty manifest with a record lacking `name` or `url`
\* does not make the builder fail; the menu's validation rejects it with
\* ValueError.
C10_BuilderNeverValidates ==
    pc = "run" /\ Parsed /\ NonEmptyDoc
        /\ (\E i \in DOMAIN ManifestRecs : ~({"name", "url"} \subseteq DOMAIN ManifestRecs[i]))
    => /\ cat_ret.ret.raised = "none"
       /\ menu_ret.called /\ menu_ret.ret.raised = "ValueError"

\* C10 amended: the builder does not validate `url`: a non-empty manifest whose
\* records all carry `name` never makes it fail, and the menu's validation
\* raises ValueError exactly when a record kept in the catalog (the last of its
\* name) lacks `url`; a record lacking `name` makes the builder itself fail with
\* KeyError, before the menu is reached.
C10_BuilderValidatesNoUrl ==
    pc = "run" /\ Parsed /\ NonEmptyDoc =>
        /\ AllNamed =>
              /\ cat_ret.ret.raised = "none"
              /\ menu_ret.called
              /\ menu_ret.activities_dict = cat_ret.ret.value
              /\ (menu_ret.ret.raised = "ValueError") <=>
                    \E i \in DOMAIN ManifestRecs :
                        /\ "url" \notin DOMAIN ManifestRecs[i]
                        /\ \A j \in DOMAIN ManifestRecs :
                              ManifestRecs[j].name = ManifestRecs[i].name => j <= i
        /\ ~AllNamed => cat_ret.ret.raised = "KeyError" /\ ~menu_ret.called

C10_Witness ==
    /\ pc = "run" /\ Parsed /\ NonEmptyDoc /\ AllNamed
    /\ Len(ManifestRecs) = 2
    /\ "url" \in DOMAIN ManifestRecs[1]
    /\ "url" \notin DOMAIN ManifestRecs[2]
    /\ cat_ret.ret.raised = "none"
    /\ menu_ret.called /\ menu_ret.ret.raised = "ValueError"

----------------------------------------------------------------------------
(* Properties of the manifest loader *)

\* C6: every failure of the manifest loader has the error kind of the step that
\* failed, and the caller can tell the kinds apart in both branches: two
\* failures of the same branch at different steps never raise the same exception
\* type; a path that is no regular file raises FileNotFoundError; a parse
\* failure of a local file raises YAMLError; a parse failure carries the
\* parser's message.
C6_ErrorKindsDistinct ==
    /\ \A e1, e2 \in yaml_seen : e1[1] = e2[1] /\ e1[2] # e2[2] => e1[3] # e2[3]
    /\ \A e \in yaml_seen :
          /\ ~e[1] /\ e[2] = "isfile" => e[3] = "FileNotFoundError"
          /\ ~e[1] /\ e[2] = "parse" => e[3] = "YAMLError"
    /\ yaml_ret.called /\ yaml_ret.ret.step = "parse" => yaml_ret.ret.wraps = "parser message"

----------------------------------------------------------------------------
(* Properties of the identifier derivation *)

\* the index of the last "." of b, 0 when there is none
LastDot(b) ==
    LET at == {i \in 1..Len(b) : b[i] = "."}
    IN  IF at = {} THEN 0 ELSE CHOOSE i \in at : \A j \in at : j <= i

\* a base name with its extension stripped: what precedes its last "."; whether
\* a name that only starts with a "." has an extension is left open
Stems(b) ==
    IF LastDot(b) = 0 THEN {b}
    ELSE IF LastDot(b) = 1 THEN {b, <<>>}
    ELSE {SubSeq(b, 1, LastDot(b) - 1)}

\* C9: a module is registered under its file's base name with the extension
\* stripped (directories and only the trailing extension removed); hence two
\* paths share an identifier exactly when their base names without extension
\* are equal.
C9_IdentifierIsStem ==
    load_ret.called /\ load_ret.ret.raised = "none" /\ load_ret.ret.value =>
        \E id \in Stems(basename(path_join(load_ret.activities_dirpath, load_ret.module_filepath))) :
            /\ id \in DOMAIN sys_modules
            /\ Changed(load_ret.before, sys_modules) = {id}

====
